---- MODULE Spec2Model ----
(***************************************************************************)
(* A model of the job application tracker: the Excel merge engine          *)
(* (excel/tracker.py), the email classifier                                *)
(* (classification/email_classifier.py), the Gmail fetch loop              *)
(* (gmail/email_processor.py) and the two tool handlers (mcp/server.py).   *)
(*                                                                         *)
(* Three specifications share the variables:                               *)
(*   SpecMerge       calls of ExcelTracker.update_applications and         *)
(*                   get_application_summary with arbitrary batches;       *)
(*   SpecClassifier  calls of EmailClassifier.add_pattern and              *)
(*                   classify_email;                                       *)
(*   SpecSummary     calls of get_application_summary on tables whose rows *)
(*                   have and lack a status;                               *)
(*   SpecFetch       calls of EmailProcessor.search_application_emails;    *)
(*   Spec            the server's tool calls scan_job_applications and     *)
(*                   get_application_summary, one after the other;         *)
(*   SpecServe       the same tool calls as coroutines of the event loop.  *)
(***************************************************************************)
EXTENDS Integers, Sequences, FiniteSets, TLC

VARIABLES
    files,          \* path -> the workbook file stored at that path
    excel_tracker,  \* JobApplicationMCPServer.excel_tracker.excel_path
    service,        \* GmailAuthenticator._service is set (is_authenticated)
    patterns,       \* EmailClassifier.patterns, an insertion-ordered dict
    clock,          \* what datetime.now() returns, in seconds
    last,           \* the last call: its arguments, return value and log
    requests        \* the handle_call_tool coroutines the event loop holds

vars == <<files, excel_tracker, service, patterns, clock, last, requests>>

---------------------------------------------------------------------------
(* Bounds of the model *)

\* longest batch handed to update_applications
MaxBatch == 2
\* largest value of the clock
MaxClock == 1
\* number of add_pattern calls
MaxAdds == 2
\* longest list of messages the search returns to search_application_emails
MaxMessages == 2

\* the tool calls the event loop holds at most
MaxCalls == 2
\* most data rows of the tables summarized
MaxRows == 3

---------------------------------------------------------------------------
(* config/settings.py *)

None == "<None>"

DEFAULT_EXCEL_PATH == "job_applications.xlsx"

DEFAULT_SHEET_NAME == "Applications"

EXCEL_HEADERS ==
    << "Company", "Position", "Status", "Date",
       "Subject", "Sender", "Message ID", "Last Updated" >>

\* EMAIL_PATTERNS: a dict, iterated in insertion order, so a sequence of
\* <<category, patterns>> pairs.  A pattern is named by its regular expression
\* (backslashes left out).
EMAIL_PATTERNS ==
    << << "application_received",
          << "thank s+you s+for s+(?:your s+)?(?:interest|applying)",
             "application s+(?:has s+been s+)?received",
             "we s+have s+received s+your s+application",
             "your s+application s+for",
             "application s+confirmation" >> >>,
       << "rejection",
          << "unfortunately",
             "we s+regret s+to s+inform",
             "after s+careful s+consideration",
             "we s+have s+decided s+to s+move s+forward s+with s+other",
             "not s+selected s+for s+(?:this s+)?position",
             "we s+will s+not s+be s+moving s+forward",
             "position s+has s+been s+filled" >> >>,
       << "interview",
          << "interview",
             "schedule s+(?:a s+)?(?:call|meeting)",
             "next s+(?:step|round)",
             "would s+like s+to s+(?:speak|talk) s+with s+you",
             "phone s+(?:screen|call)",
             "video s+(?:call|interview)" >> >>,
       << "offer",
          << "pleased s+to s+(?:offer|extend)",
             "job s+offer",
             "offer s+of s+employment",
             "congratulations",
             "we s+would s+like s+to s+offer s+you" >> >> >>

---------------------------------------------------------------------------
(* The workbook file at a path.  exists: Path.exists(); valid: load_workbook *)
(* can read it; hasSheet: DEFAULT_SHEET_NAME is in wb.sheetnames; ws: the   *)
(* rows of that sheet, row 1 first, each row the tuple of its 8 cells.      *)

Absent == [exists |-> FALSE, valid |-> FALSE, hasSheet |-> FALSE, ws |-> << >>]

\* a file that exists and that load_workbook cannot read (a truncated archive)
Corrupt == [exists |-> TRUE, valid |-> FALSE, hasSheet |-> FALSE, ws |-> << >>]

Book(hasSheet, ws) ==
    [exists |-> TRUE, valid |-> TRUE, hasSheet |-> hasSheet, ws |-> ws]

\* python truthiness of a cell value: None and '' are falsy
Truthy(v) == v # None /\ v # ""

\* Worksheet.max_row: 1 for a sheet without cells
MaxRow(ws) == IF Len(ws) = 0 THEN 1 ELSE Len(ws)

\* ws.cell(row, column).value
Cell(ws, row, column) == IF row <= Len(ws) THEN ws[row][column] ELSE None

\* the data rows of a sheet: everything below row 1
DataRows(ws) == IF Len(ws) = 0 THEN << >> ELSE SubSeq(ws, 2, Len(ws))

---------------------------------------------------------------------------
(* excel/tracker.py: ExcelTracker *)

EmptyRow == [c \in 1..8 |-> None]

\* ws after a cell of every column of `row` has been written
SetRow(ws, row, cells) ==
    IF row = Len(ws) + 1 THEN Append(ws, cells)
    ELSE IF row <= Len(ws) THEN [ws EXCEPT ![row] = cells]
    ELSE [r \in 1..row |->
            IF r = row THEN cells ELSE IF r <= Len(ws) THEN ws[r] ELSE EmptyRow]

\* _get_or_create_workbook: the worksheet it returns.  An existing workbook
\* is loaded and its sheet taken, or created empty when it has none; a
\* missing file gives a new workbook whose only sheet is empty.
\* (load_workbook raising is decided by the caller, see LoadRaises.)
GetOrCreateWorkbook(file) ==
    IF file.exists /\ file.hasSheet THEN file.ws ELSE << >>

\* load_workbook raises: the file is no readable workbook, or reading it
\* fails (io = "load")
LoadRaises(file, io) == file.exists /\ (~file.valid \/ io = "load")

\* _ensure_headers
EnsureHeaders(ws) ==
    IF MaxRow(ws) = 1 /\ Cell(ws, 1, 1) = None
    THEN SetRow(ws, 1, EXCEL_HEADERS)
    ELSE ws

\* _get_existing_message_ids reading the Sender column (6) instead of 7
WrongColumnMessageIds(ws) ==
    { Cell(ws, row, 6) : row \in { r \in 2..MaxRow(ws) : Truthy(Cell(ws, r, 6)) } }

\* _get_existing_message_ids
GetExistingMessageIds(ws) ==
    { Cell(ws, row, 7) : row \in { r \in 2..MaxRow(ws) : Truthy(Cell(ws, r, 7)) } }

\* the keys _write_application_row reads, in the order it reads them
RowKeys == << "company", "position", "status", "date",
              "subject", "sender", "message_id" >>

\* _write_application_row raises KeyError part-way through the row
WriteRaises(app) == \E k \in 1..Len(RowKeys) : RowKeys[k] \notin DOMAIN app

\* _write_application_row writing one row too high (row = ws.max_row)
WriteRowAbove(ws, row, app, now) ==
    SetRow(ws, row - 1,
           << app.company, app.position, app.status, app.date,
              app.subject, app.sender, app.message_id, now >>)

\* _write_application_row
WriteApplicationRow(ws, row, app, now) ==
    SetRow(ws, row,
           << app.company, app.position, app.status, app.date,
              app.subject, app.sender, app.message_id, now >>)

\* _add_new_applications: the loop over the batch.  existing_message_ids is
\* the set computed before the loop; the loop does not add to it.
\* raised: a KeyError left the loop (the rows written so far stay in ws).
RECURSIVE AddLoop(_, _, _, _, _)
AddLoop(ws, applications, existing_message_ids, now, added_count) ==
    IF applications = << >>
    THEN [raised |-> FALSE, ws |-> ws, added_count |-> added_count]
    ELSE LET app == Head(applications) IN
         IF "message_id" \notin DOMAIN app
         THEN [raised |-> TRUE, ws |-> ws, added_count |-> added_count]
         ELSE IF app.message_id \notin existing_message_ids
         THEN IF WriteRaises(app)
              THEN [raised |-> TRUE, ws |-> ws, added_count |-> added_count]
              ELSE AddLoop(WriteApplicationRow(ws, MaxRow(ws) + 1, app, now),
                           Tail(applications), existing_message_ids, now,
                           added_count + 1)
         ELSE AddLoop(ws, Tail(applications), existing_message_ids, now,
                      added_count)

AddNewApplications(ws, applications, existing_message_ids, now) ==
    AddLoop(ws, applications, existing_message_ids, now, 0)

\* wb.save(self.excel_path), called on the target path itself: no temporary
\* file, no backup.  It either writes the workbook ("ok"), raises before the
\* target is opened for writing ("refused": the file is as it was), or raises
\* after the target was opened and truncated ("torn": the file is no workbook).
Save(file, ws, io) ==
    CASE io = "refused" -> file
      [] io = "torn"    -> Corrupt
      [] OTHER          -> Book(TRUE, ws)

\* what the file system does during one call: nothing wrong ("ok"), a read
\* error in load_workbook ("load"), or one of the two save errors
IOs == {"ok", "load", "refused", "torn"}

SaveRaises(io) == io \in {"refused", "torn"}

\* update_applications: what it returns (ok), what it logs (added_count) and
\* the file it leaves at excel_path.
UpdateApplicationsResult(file, applications, now, io) ==
    IF LoadRaises(file, io)
    THEN [ok |-> FALSE, added_count |-> 0, file |-> file]
    ELSE LET ws       == EnsureHeaders(GetOrCreateWorkbook(file))
             existing == GetExistingMessageIds(ws)
             r        == AddNewApplications(ws, applications, existing, now)
         IN  IF r.raised
             THEN [ok |-> FALSE, added_count |-> 0, file |-> file]
             ELSE [ok          |-> ~SaveRaises(io),
                   added_count |-> IF SaveRaises(io) THEN 0 ELSE r.added_count,
                   file        |-> Save(file, r.ws, io)]

\* _count_applications_by_status: the loop over rows 2..max_row
RECURSIVE CountLoop(_, _, _, _)
CountLoop(ws, row, status_counts, total_applications) ==
    IF row > MaxRow(ws)
    THEN [status_counts |-> status_counts, total_applications |-> total_applications]
    ELSE LET status == Cell(ws, row, 3) IN
         IF Truthy(status)
         THEN CountLoop(ws, row + 1,
                        IF status \in DOMAIN status_counts
                        THEN [status_counts EXCEPT ![status] = @ + 1]
                        ELSE [s \in DOMAIN status_counts \cup {status} |->
                                 IF s = status THEN 1 ELSE status_counts[s]],
                        total_applications + 1)
         ELSE CountLoop(ws, row + 1, status_counts, total_applications)

EmptyDict == [s \in {} |-> 0]

\* _count_applications_by_status beginning at row 1, the header row
CountFromHeaderRow(ws) == CountLoop(ws, 1, EmptyDict, 0)

\* _count_applications_by_status
CountApplicationsByStatus(ws) == CountLoop(ws, 2, EmptyDict, 0)

\* get_application_summary without its total_applications == 0 branch
SummaryWithoutEmptyCheck(path, file, io) ==
    IF ~file.exists
    THEN [error |-> "Excel file not found"]
    ELSE IF LoadRaises(file, io)
    THEN [error |-> "Error reading Excel file"]
    ELSE IF ~file.hasSheet
    THEN [error |-> "No Applications sheet found in Excel file"]
    ELSE LET c == CountApplicationsByStatus(file.ws) IN
         [total_applications |-> c.total_applications,
          status_counts      |-> c.status_counts,
          file_path          |-> path]

\* get_application_summary: the dict it returns
GetApplicationSummaryResult(path, file, io) ==
    IF ~file.exists
    THEN [error |-> "Excel file not found"]
    ELSE IF LoadRaises(file, io)
    THEN [error |-> "Error reading Excel file"]
    ELSE IF ~file.hasSheet
    THEN [error |-> "No Applications sheet found in Excel file"]
    ELSE LET c == CountApplicationsByStatus(file.ws) IN
         IF c.total_applications = 0
         THEN [error |-> "No applications found in Excel file"]
         ELSE [total_applications |-> c.total_applications,
               status_counts      |-> c.status_counts,
               file_path          |-> path]

---------------------------------------------------------------------------
(* The inputs of the model *)

Paths == {DEFAULT_EXCEL_PATH, "other.xlsx"}

\* An application record as classify_applications hands it to
\* update_applications.  Two records of one message id differ in status,
\* company, position and date.
App(id, v) ==
    [company    |-> IF v = 1 THEN "Acme" ELSE "Unknown",
     position   |-> IF v = 1 THEN "Engineer" ELSE "Unknown",
     status     |-> IF v = 1 THEN "interview" ELSE "rejection",
     date       |-> IF v = 1 THEN "2024-01-02" ELSE "2024-02-03",
     subject    |-> "subject",
     sender     |-> "hr@acme.com",
     body       |-> "body",
     message_id |-> id]

\* a record without a 'sender': _write_application_row raises KeyError after
\* it has written the first five cells of the row
NoSender ==
    [company |-> "Acme", position |-> "Engineer", status |-> "offer",
     date |-> "2024-01-02", subject |-> "subject", body |-> "body",
     message_id |-> "m2"]

Apps == {App("m1", 1), App("m1", 2), App("m2", 1), NoSender}

RECURSIVE SeqsUpTo(_, _)
SeqsUpTo(S, n) ==
    IF n = 0 THEN { << >> }
    ELSE LET shorter == SeqsUpTo(S, n - 1) IN
         shorter \cup { Append(q, x) : q \in shorter, x \in S }

Batches == SeqsUpTo(Apps, MaxBatch)

\* the files update_applications may find at its path when the tracker is
\* constructed: no file, a workbook without the sheet, a workbook whose sheet
\* holds the header row only (the fixed one, or one the user has edited), and
\* the table an earlier run left with one row
\* a header row the user has edited: its first cell reads "Employer"
EditedHeaders == [EXCEL_HEADERS EXCEPT ![1] = "Employer"]

FreshFiles ==
    {Absent, Book(FALSE, << >>), Book(TRUE, << EXCEL_HEADERS >>),
     Book(TRUE, << EditedHeaders >>),
     Book(TRUE, WriteApplicationRow(<< EXCEL_HEADERS >>, 2, App("m0", 1), 0))}

NoCall == [op |-> "none"]

\* no tool call has been received
NoRequests == << >>

---------------------------------------------------------------------------
(* SpecMerge: the tracker of ExcelTracker(), called directly *)

InitMerge ==
    /\ files \in { [p \in Paths |-> IF p = DEFAULT_EXCEL_PATH THEN f ELSE Absent] :
                      f \in FreshFiles }
    /\ excel_tracker = DEFAULT_EXCEL_PATH
    /\ service = FALSE
    /\ patterns = EMAIL_PATTERNS
    /\ clock = 0
    /\ last = NoCall
    /\ requests = NoRequests

\* self.excel_tracker.update_applications(applications).  last keeps what the
\* caller sees of the call: the length of the batch, the value returned, the
\* count logged, and the number of data rows the table had before.
UpdateApplications(applications, io) ==
    LET path == excel_tracker IN
    \E r \in {UpdateApplicationsResult(files[path], applications, clock, io)} :
        /\ files' = [files EXCEPT ![path] = r.file]
        /\ last' = [op          |-> "update",
                    path        |-> path,
                    n           |-> Len(applications),
                    ok          |-> r.ok,
                    added_count |-> r.added_count,
                    rows_before |-> Len(DataRows(files[path].ws))]
        /\ UNCHANGED <<requests, excel_tracker, service, patterns, clock>>

\* self.excel_tracker.get_application_summary()
GetApplicationSummary(io) ==
    LET path == excel_tracker IN
    /\ last' = [op     |-> "summary",
                path   |-> path,
                result |-> GetApplicationSummaryResult(path, files[path], io)]
    /\ UNCHANGED <<requests, files, excel_tracker, service, patterns, clock>>

\* a second passes
Tick ==
    /\ clock < MaxClock
    /\ clock' = clock + 1
    /\ UNCHANGED <<requests, files, excel_tracker, service, patterns, last>>

NextMerge ==
    \/ \E applications \in Batches, io \in IOs : UpdateApplications(applications, io)
    \/ \E io \in IOs : GetApplicationSummary(io)
    \/ Tick

SpecMerge == InitMerge /\ [][NextMerge]_vars

---------------------------------------------------------------------------
(* Claims about the merge engine, checked under SpecMerge *)

\* the table update_applications works on
Table == files[excel_tracker]

\* C1: after any sequence of update_applications calls, no two data rows of
\* the persisted table carry the same message_id.
C1_UniqueMessageIds ==
    \A p \in Paths :
        \A i, j \in 2..Len(files[p].ws) :
            i # j => Cell(files[p].ws, i, 7) # Cell(files[p].ws, j, 7)

\* C2: every update_applications call leaves every row that was in the
\* persisted table before the call at its position, with the same cells.
C2_MergeKeepsExistingRows ==
    [][ last'.op = "update" =>
            \A p \in Paths :
                \A row \in 1..Len(files[p].ws) :
                    /\ row <= Len(files'[p].ws)
                    /\ files'[p].ws[row] = files[p].ws[row] ]_vars

\* C3: merging a batch and, at once or later, the same batch again: when the
\* first call succeeds, the second succeeds, inserts 0 rows and leaves the
\* row count (and the file) as the first call left it.
C3_MergeIdempotent ==
    \A applications \in Batches :
        LET first == UpdateApplicationsResult(Table, applications, clock, "ok") IN
        first.ok =>
            \A later \in clock..MaxClock :
                LET second == UpdateApplicationsResult(first.file, applications,
                                                       later, "ok")
                IN  /\ second.ok
                    /\ second.added_count = 0
                    /\ Len(second.file.ws) = Len(first.file.ws)
                    /\ second.file = first.file

\* C3 witness: a successful merge of a non-empty batch into a table that
\* already held every record of it inserted nothing.
C3_Witness ==
    /\ last.op = "update"
    /\ last.ok
    /\ last.n > 0
    /\ last.added_count = 0
    /\ last.rows_before > 0
    /\ Len(DataRows(Table.ws)) = last.rows_before

\* C4: an update_applications call that reports failure leaves every file
\* exactly as it was before the call.
C4_FailedMergeLeavesFile ==
    [][ (last'.op = "update" /\ ~last'.ok) => files' = files ]_vars

\* the message ids of a batch are pairwise distinct and none is in the table
FreshBatch(applications, ws) ==
    /\ \A k \in 1..Len(applications) : ~WriteRaises(applications[k])
    /\ \A k, l \in 1..Len(applications) :
           k # l => applications[k].message_id # applications[l].message_id
    /\ \A k \in 1..Len(applications) :
           applications[k].message_id \notin GetExistingMessageIds(ws)

\* the row a record is to become
RowOf(app, now) ==
    << app.company, app.position, app.status, app.date,
       app.subject, app.sender, app.message_id, now >>

\* C10: load, merge N records with pairwise distinct ids that are not in the
\* table, save, load again: the sheet holds the rows it held (below the header
\* row load_or_init provides) followed by the N records' rows, in batch order.
C10_RoundTrip ==
    \A applications \in Batches :
        LET loaded   == EnsureHeaders(GetOrCreateWorkbook(Table))
            r        == UpdateApplicationsResult(Table, applications, clock, "ok")
            reloaded == GetOrCreateWorkbook(r.file)
        IN  (~LoadRaises(Table, "ok") /\ FreshBatch(applications, loaded)) =>
                /\ r.ok
                /\ r.added_count = Len(applications)
                /\ reloaded =
                       loaded \o [k \in 1..Len(applications) |->
                                     RowOf(applications[k], clock)]

\* C10 witness: a merge of two records into a table with a data row inserted
\* both, with different message ids, below the rows that were there.
C10_Witness ==
    /\ last.op = "update"
    /\ last.ok
    /\ last.n = 2
    /\ last.added_count = 2
    /\ last.rows_before >= 1
    /\ Len(DataRows(Table.ws)) = last.rows_before + 2
    /\ Cell(Table.ws, Len(Table.ws), 7) # Cell(Table.ws, Len(Table.ws) - 1, 7)

\* the table the summary was taken of has no data row, no sheet or no file
NoData(file) ==
    \/ ~file.exists
    \/ ~file.hasSheet
    \/ Len(DataRows(file.ws)) = 0

\* C8: get_application_summary of a table without data rows, without the
\* sheet or without a file returns an error; a summary it returns has
\* total_applications >= 1.
C8_NoZeroSummary ==
    last.op = "summary" =>
        /\ NoData(files[last.path]) => "error" \in DOMAIN last.result
        /\ "error" \notin DOMAIN last.result => last.result.total_applications >= 1

\* C8 witness: the summary of a header-only table is the "no applications"
\* error.
C8_Witness ==
    /\ last.op = "summary"
    /\ Table.exists /\ Table.valid /\ Table.hasSheet
    /\ Table.ws = << EXCEL_HEADERS >>
    /\ last.result = [error |-> "No applications found in Excel file"]

\* row 1 of the sheet of a file is populated: its first cell has a value
PopulatedHeader(file) ==
    /\ file.exists /\ file.valid /\ file.hasSheet
    /\ Len(file.ws) >= 1
    /\ file.ws[1][1] # None

\* the file is a table whose first row is the fixed header and whose data
\* rows, n of them, begin at row 2
NewTable(file, n) ==
    /\ file.valid /\ file.hasSheet
    /\ Len(file.ws) = n + 1
    /\ file.ws[1] = EXCEL_HEADERS
    /\ \A row \in 2..Len(file.ws) : Truthy(file.ws[row][7])

\* C11: an absent table file is handled per operation: update_applications
\* leaves a new table whose first row is the fixed header, with the rows it
\* added from row 2 on, where get_application_summary reports "file not found"
\* and creates no file; and update_applications on a table whose header row is
\* populated leaves that row as it was.
C11_AbsentFileHandling ==
    [][ LET path == excel_tracker IN
        /\ (last'.op = "update" /\ ~files[path].exists) =>
               /\ last'.ok => files'[path].exists
               /\ files'[path].exists => NewTable(files'[path], last'.added_count)
        /\ (last'.op = "summary" /\ ~files[path].exists) =>
               /\ last'.result = [error |-> "Excel file not found"]
               /\ files' = files
        /\ (last'.op = "update" /\ PopulatedHeader(files[path])) =>
               /\ Len(files'[path].ws) >= 1
               /\ files'[path].ws[1] = files[path].ws[1] ]_vars

\* the same, of the calls whose save does not fail part-way
C11_AbsentFileHandlingUntorn ==
    [][ LET path == excel_tracker IN
        (last'.op = "update" => (files'[path].exists => files'[path].valid)
                                \/ files[path] = Corrupt) =>
        /\ (last'.op = "update" /\ ~files[path].exists) =>
               /\ last'.ok => files'[path].exists
               /\ files'[path].exists => NewTable(files'[path], last'.added_count)
        /\ (last'.op = "summary" /\ ~files[path].exists) =>
               /\ last'.result = [error |-> "Excel file not found"]
               /\ files' = files
        /\ (last'.op = "update" /\ PopulatedHeader(files[path])) =>
               /\ Len(files'[path].ws) >= 1
               /\ files'[path].ws[1] = files[path].ws[1] ]_vars

---------------------------------------------------------------------------
(* SpecSummary: get_application_summary of the tables a user may keep *)

\* the status cells of the rows of these tables; None is an empty cell
StatusCells == {"interview", "rejection", "offer", None}

\* a data row with the given status cell
StatusRow(status) ==
    << "Acme", "Engineer", status, "2024-01-02", "subject", "hr@acme.com",
       "m0", 0 >>

\* the sheets of up to MaxRows data rows below the header row
StatusSheets ==
    { << EXCEL_HEADERS >> \o [k \in 1..Len(q) |-> StatusRow(q[k])] :
         q \in SeqsUpTo(StatusCells, MaxRows) }

InitSummary ==
    /\ files \in { [p \in Paths |-> IF p = DEFAULT_EXCEL_PATH THEN f ELSE Absent] :
                      f \in {Absent, Corrupt, Book(FALSE, << >>)}
                           \cup { Book(TRUE, ws) : ws \in StatusSheets } }
    /\ excel_tracker = DEFAULT_EXCEL_PATH
    /\ service = FALSE
    /\ patterns = EMAIL_PATTERNS
    /\ clock = 0
    /\ last = NoCall
    /\ requests = NoRequests

NextSummary == \E io \in {"ok", "load"} : GetApplicationSummary(io)

SpecSummary == InitSummary /\ [][NextSummary]_vars

\* the data rows of a sheet whose status cell has a value
RowsWithStatus(ws) == { row \in 2..Len(ws) : Truthy(ws[row][3]) }

\* the sum of the values of a dict of counts
RECURSIVE SumOfCounts(_)
SumOfCounts(counts) ==
    IF DOMAIN counts = {} THEN 0
    ELSE LET s == CHOOSE x \in DOMAIN counts : TRUE IN
         counts[s] + SumOfCounts([x \in DOMAIN counts \ {s} |-> counts[x]])

\* the summary is the count of the rows of the sheet that have a status
CountsRowsOf(summary, ws) ==
    /\ "error" \notin DOMAIN summary
    /\ summary.total_applications = Cardinality(RowsWithStatus(ws))
    /\ DOMAIN summary.status_counts = { ws[row][3] : row \in RowsWithStatus(ws) }
    /\ \A s \in DOMAIN summary.status_counts :
           summary.status_counts[s] =
               Cardinality({ row \in RowsWithStatus(ws) : ws[row][3] = s })
    /\ SumOfCounts(summary.status_counts) = summary.total_applications

\* C15: of a readable table with at least one data row whose status cell has
\* a value, get_application_summary returns as total the number of data rows
\* (the header row left out) whose status cell has a value and per status the
\* number of these rows with that status; the counts add up to the total and
\* rows without a status are in neither.
C15_SummaryCounts ==
    LET file == Table IN
    (file.exists /\ file.valid /\ file.hasSheet /\ RowsWithStatus(file.ws) # {}) =>
        /\ CountsRowsOf(GetApplicationSummaryResult(excel_tracker, file, "ok"),
                        file.ws)
        /\ (last.op = "summary" /\ "error" \notin DOMAIN last.result) =>
               CountsRowsOf(last.result, file.ws)

\* C15 witness: the summary of a table of three data rows, two of one status
\* and one without a status, counted two rows.
C15_Witness ==
    /\ last.op = "summary"
    /\ Len(Table.ws) = 4
    /\ Cardinality(RowsWithStatus(Table.ws)) = 2
    /\ "error" \notin DOMAIN last.result
    /\ last.result.total_applications = 2
    /\ last.result.status_counts = [interview |-> 2]

---------------------------------------------------------------------------
(* classification/email_classifier.py: EmailClassifier *)

(* A text (a subject, a body) is the set of the regular expressions that    *)
(* match somewhere in it; joining two texts with a space gives a text that  *)
(* every expression of either matches.  lower() and re.IGNORECASE make the  *)
(* case of the text irrelevant, so texts carry no case.                     *)

\* f"{subject} {body}".lower()
Content(subject, body) == subject \cup body

\* re.search(pattern, content, re.IGNORECASE) finds a match
ReSearch(pattern, content) == pattern \in content

\* the inner loop of classify_email: some pattern of the list matches
RECURSIVE AnyPatternMatches(_, _)
AnyPatternMatches(pattern_list, content) ==
    IF pattern_list = << >> THEN FALSE
    ELSE IF ReSearch(Head(pattern_list), content) THEN TRUE
    ELSE AnyPatternMatches(Tail(pattern_list), content)

\* the outer loop of classify_email over self.patterns.items()
RECURSIVE ClassifyLoop(_, _)
ClassifyLoop(items, content) ==
    IF items = << >> THEN "unknown"
    ELSE IF AnyPatternMatches(Head(items)[2], content) THEN Head(items)[1]
    ELSE ClassifyLoop(Tail(items), content)

\* classify_email scanning the categories last to first
RECURSIVE ClassifyLoopReversed(_, _)
ClassifyLoopReversed(items, content) ==
    IF items = << >> THEN "unknown"
    ELSE IF AnyPatternMatches(items[Len(items)][2], content)
         THEN items[Len(items)][1]
         ELSE ClassifyLoopReversed(SubSeq(items, 1, Len(items) - 1), content)

ClassifyReversed(pats, subject, body) ==
    ClassifyLoopReversed(pats, Content(subject, body))

\* classify_email
ClassifyEmail(pats, subject, body) ==
    ClassifyLoop(pats, Content(subject, body))

\* get_categories: list(self.patterns.keys())
GetCategories(pats) == [i \in 1..Len(pats) |-> pats[i][1]]

\* `category in self.patterns`
HasCategory(pats, category) == \E i \in 1..Len(pats) : pats[i][1] = category

\* add_pattern putting a new category first in the dict
AddPatternInFront(pats, category, pattern) ==
    IF HasCategory(pats, category)
    THEN [i \in 1..Len(pats) |->
             IF pats[i][1] = category
             THEN << category, Append(pats[i][2], pattern) >>
             ELSE pats[i]]
    ELSE << << category, << pattern >> >> >> \o pats

\* add_pattern: a new key is added at the end of the dict; the pattern is
\* appended to the category's list
AddPatternResult(pats, category, pattern) ==
    LET with_key == IF HasCategory(pats, category)
                    THEN pats
                    ELSE Append(pats, << category, << >> >>)
    IN  [i \in 1..Len(with_key) |->
            IF with_key[i][1] = category
            THEN << category, Append(with_key[i][2], pattern) >>
            ELSE with_key[i]]

\* the number of patterns of all categories
RECURSIVE CountPatterns(_)
CountPatterns(items) ==
    IF items = << >> THEN 0 ELSE Len(Head(items)[2]) + CountPatterns(Tail(items))

---------------------------------------------------------------------------
(* SpecClassifier: add_pattern and classify_email, called directly *)

\* the categories add_pattern is called with: one of EMAIL_PATTERNS, a new
\* one, and the name classify_email returns for a text nothing matches
AddCategories == {"interview", "withdrawn", "unknown"}

\* the patterns add_pattern is called with: one that EMAIL_PATTERNS holds
\* under 'interview', and a new one
AddPatterns == {"interview", "withdr(?:ew|awn)"}

\* the expressions the texts of the model are matched by
TextPatterns ==
    { "application s+confirmation", "unfortunately", "interview",
      "congratulations", "withdr(?:ew|awn)" }

\* a text matched by no expression, or by one
Texts == { {} } \cup { {p} : p \in TextPatterns }

InitClassifier ==
    /\ files = [p \in Paths |-> Absent]
    /\ excel_tracker = DEFAULT_EXCEL_PATH
    /\ service = FALSE
    /\ patterns = EMAIL_PATTERNS
    /\ clock = 0
    /\ last = NoCall
    /\ requests = NoRequests

\* self.classifier.add_pattern(category, pattern)
AddPattern(category, pattern) ==
    /\ CountPatterns(patterns) < CountPatterns(EMAIL_PATTERNS) + MaxAdds
    /\ patterns' = AddPatternResult(patterns, category, pattern)
    /\ last' = [op       |-> "add_pattern",
                category |-> category,
                pattern  |-> pattern,
                created  |-> ~HasCategory(patterns, category)]
    /\ UNCHANGED <<requests, files, excel_tracker, service, clock>>

\* self.classifier.classify_email(subject, body)
Classify(subject, body) ==
    /\ last' = [op      |-> "classify",
                subject |-> subject,
                body    |-> body,
                result  |-> ClassifyEmail(patterns, subject, body)]
    /\ UNCHANGED <<requests, files, excel_tracker, service, patterns, clock>>

NextClassifier ==
    \/ \E category \in AddCategories, pattern \in AddPatterns :
           AddPattern(category, pattern)
    \/ \E subject \in Texts, body \in Texts : Classify(subject, body)

SpecClassifier == InitClassifier /\ [][NextClassifier]_vars

---------------------------------------------------------------------------
(* Claims about the classifier, checked under SpecClassifier *)

\* the positions, in iteration order, of the categories with a pattern that
\* matches the content
MatchingCategories(pats, content) ==
    { i \in 1..Len(pats) :
        \E k \in 1..Len(pats[i][2]) : ReSearch(pats[i][2][k], content) }

Least(S) == CHOOSE i \in S : \A j \in S : i <= j

\* the category of the first pattern that matches, 'unknown' without a match
FirstMatch(pats, content) ==
    LET M == MatchingCategories(pats, content) IN
    IF M = {} THEN "unknown" ELSE pats[Least(M)][1]

\* C5 as amended: classify_email returns the earliest category, in iteration
\* order, that has a matching pattern, and 'unknown' when none has.
C5_FirstMatchWins ==
    last.op = "classify" =>
        last.result = FirstMatch(patterns, Content(last.subject, last.body))

\* C5 as claimed: the same, and 'unknown' is returned exactly when no pattern
\* of any category matches.
C5_UnknownIffNoMatch ==
    last.op = "classify" =>
        /\ last.result = FirstMatch(patterns, Content(last.subject, last.body))
        /\ last.result = "unknown" <=>
               MatchingCategories(patterns, Content(last.subject, last.body)) = {}

\* C5 witness: a text that patterns of two categories match, one of them
\* added by add_pattern, was classified into the earlier category.
C5_Witness ==
    /\ last.op = "classify"
    /\ Cardinality(MatchingCategories(patterns,
                                      Content(last.subject, last.body))) >= 2
    /\ Len(patterns) > Len(EMAIL_PATTERNS)
    /\ last.result = "rejection"

\* C6: add_pattern with a new category changes the class of no text that was
\* classified into a category; add_pattern with an existing category changes
\* the class of no text that was classified into it or an earlier one.
Rank(pats, category) == CHOOSE i \in 1..Len(pats) : pats[i][1] = category

AllContents == { Content(subject, body) : subject \in Texts, body \in Texts }

C6_AddPatternKeepsEarlierClasses ==
    [][ \A category \in AddCategories :
          (patterns' # patterns /\ last'.op = "add_pattern"
             /\ last'.category = category) =>
            \A content \in AllContents :
                LET before == ClassifyLoop(patterns, content)
                    after  == ClassifyLoop(patterns', content)
                IN  IF last'.created
                    THEN /\ patterns'[Len(patterns')][1] = category
                         /\ SubSeq(patterns', 1, Len(patterns)) = patterns
                         /\ MatchingCategories(patterns, content) # {}
                                => after = before
                         /\ before # "unknown" => after = before
                    ELSE (/\ MatchingCategories(patterns, content) # {}
                          /\ Least(MatchingCategories(patterns, content))
                                <= Rank(patterns, category))
                            => after = before ]_vars

\* C6 witness: add_pattern created a category with a pattern that an earlier
\* category holds too; a text it matches stays in the earlier category, and
\* the new category is the last one.
C6_Witness ==
    /\ last.op = "add_pattern"
    /\ last.created
    /\ last.category = "withdrawn"
    /\ last.pattern = "interview"
    /\ GetCategories(patterns)[Len(patterns)] = "withdrawn"
    /\ ClassifyLoop(patterns, {"interview"}) = "interview"

---------------------------------------------------------------------------
(* gmail/email_processor.py: EmailProcessor *)

(* The mailbox: what messages().get returns for a message id.  The header   *)
(* values and bodies are concrete strings; what the regular expressions and *)
(* strptime of the code make of each of them is tabulated below.            *)
Mailbox ==
    [m1 |-> [subject     |-> "Interview for Software Engineer position",
             sender      |-> "recruiter@acmecorp.com",
             date_header |-> "Mon, 15 Jan 2024 10:30:00 +0000",
             body        |-> "We would like to schedule a call with you."],
     m2 |-> [subject     |-> "Your application",
             sender      |-> "someone@gmail.com",
             date_header |-> "Tue, 20 Feb 2024 09:00:00 -0500 (EST)",
             body        |-> "Unfortunately we will not be moving forward. Thank you for your interest."],
     m3 |-> [subject     |-> "Weekly newsletter",
             sender      |-> "no-at-sign",
             date_header |-> "yesterday",
             body        |-> ""]]

MailIds == DOMAIN Mailbox

\* the EMAIL_PATTERNS expressions that match a string of the mailbox
MatchedBy(string) ==
    CASE string = "Interview for Software Engineer position" -> {"interview"}
      [] string = "We would like to schedule a call with you." ->
            {"schedule s+(?:a s+)?(?:call|meeting)"}
      [] string = "Unfortunately we will not be moving forward. Thank you for your interest." ->
            {"thank s+you s+for s+(?:your s+)?(?:interest|applying)",
             "unfortunately",
             "we s+will s+not s+be s+moving s+forward"}
      [] OTHER -> {}

\* COMMON_EMAIL_PROVIDERS
COMMON_EMAIL_PROVIDERS ==
    {"gmail.com", "yahoo.com", "hotmail.com", "outlook.com",
     "icloud.com", "aol.com", "protonmail.com"}

\* sender.split('@')[1].lower(), None when the sender has no '@'
DomainOf(sender) ==
    CASE sender = "recruiter@acmecorp.com" -> "acmecorp.com"
      [] sender = "someone@gmail.com"      -> "gmail.com"
      [] OTHER                             -> None

\* domain.split('.')[0].title()
FirstLabelTitle(domain) ==
    CASE domain = "acmecorp.com" -> "Acmecorp"
      [] domain = "gmail.com"    -> "Gmail"
      [] OTHER                   -> domain

\* _extract_position: group 1 of the first position pattern that matches the
\* subject, stripped and title-cased; "Unknown" when none matches
ExtractPosition(subject) ==
    CASE subject = "Interview for Software Engineer position" ->
            "Interview For Software Engineer"
      [] OTHER -> "Unknown"

\* _extract_company_info
ExtractCompanyInfo(sender, subject) ==
    [company  |-> IF DomainOf(sender) # None
                     /\ DomainOf(sender) \notin COMMON_EMAIL_PROVIDERS
                  THEN FirstLabelTitle(DomainOf(sender))
                  ELSE "Unknown",
     position |-> ExtractPosition(subject)]

\* datetime.now().strftime('%Y-%m-%d'): the clock of the model runs within
\* one day
Today(now) == "2024-03-01"

\* _parse_email_date
ParseEmailDate(date_header, now) ==
    CASE date_header = "Mon, 15 Jan 2024 10:30:00 +0000"       -> "2024-01-15"
      [] date_header = "Tue, 20 Feb 2024 09:00:00 -0500 (EST)" -> "2024-02-20"
      [] OTHER                                                 -> Today(now)

\* _process_message, when it does not raise
ProcessMessage(message_id, now) ==
    LET msg  == Mailbox[message_id]
        info == ExtractCompanyInfo(msg.sender, msg.subject)
    IN  [company    |-> info.company,
         position   |-> info.position,
         status     |-> "unknown",
         date       |-> ParseEmailDate(msg.date_header, now),
         subject    |-> msg.subject,
         sender     |-> msg.sender,
         body       |-> msg.body,
         message_id |-> message_id]

\* the message loop of search_application_emails ending at the first message
\* that raises
RECURSIVE MessageLoopAborting(_, _, _, _, _)
MessageLoopAborting(messages, k, failed, now, applications) ==
    IF k > Len(messages) THEN applications
    ELSE IF k \in failed THEN applications
    ELSE MessageLoopAborting(messages, k + 1, failed, now,
                             Append(applications, ProcessMessage(messages[k], now)))

\* the message loop of search_application_emails: the k-th message of the
\* list is processed; when that raises (k \in failed) the error is logged and
\* the loop goes on
RECURSIVE MessageLoop(_, _, _, _, _)
MessageLoop(messages, k, failed, now, applications) ==
    IF k > Len(messages) THEN applications
    ELSE IF k \in failed
    THEN MessageLoop(messages, k + 1, failed, now, applications)
    ELSE MessageLoop(messages, k + 1, failed, now,
                     Append(applications, ProcessMessage(messages[k], now)))

\* the dates the tools are called with: a YYYY-MM-DD date and one that
\* strptime rejects
DateArgs == {"2024-01-01", "2024-12-31", "01/02/2024"}

\* datetime.strptime(date, '%Y-%m-%d') does not raise
ValidDate(date) == date \in {"2024-01-01", "2024-12-31"}

\* search_application_emails.  env is what Gmail does during the call:
\*   auth      authenticate() succeeds
\*   list      messages().list().execute(): "ok", "http_error" (HttpError) or
\*             "error" (another exception)
\*   messages  the ids it lists
\*   failed    the positions of the list whose _process_message raises
\* raised: an exception leaves the function.  authenticate_calls: the calls
\* of authenticate() it made.
SearchApplicationEmails(authenticated, start_date, end_date, env, now) ==
    LET calls == IF authenticated THEN 0 ELSE 1 IN
    IF ~authenticated /\ ~env.auth
    THEN [raised |-> FALSE, applications |-> << >>, service |-> FALSE,
          authenticate_calls |-> calls]
    ELSE IF ~ValidDate(start_date) \/ ~ValidDate(end_date)
    THEN [raised |-> TRUE, applications |-> << >>, service |-> TRUE,
          authenticate_calls |-> calls]
    ELSE IF env.list = "http_error"
    THEN [raised |-> FALSE, applications |-> << >>, service |-> TRUE,
          authenticate_calls |-> calls]
    ELSE IF env.list = "error"
    THEN [raised |-> TRUE, applications |-> << >>, service |-> TRUE,
          authenticate_calls |-> calls]
    ELSE [raised       |-> FALSE,
          applications |-> MessageLoop(env.messages, 1, env.failed, now, << >>),
          service      |-> TRUE,
          authenticate_calls |-> calls]

\* classify_applications
ClassifyApplications(pats, applications) ==
    [k \in 1..Len(applications) |->
        [applications[k] EXCEPT
            !.status = ClassifyEmail(pats, MatchedBy(applications[k].subject),
                                     MatchedBy(applications[k].body))]]

\* what Gmail may do during one search, the lists it returns taken from
\* `listings`
Envs(listings) ==
    {[auth |-> FALSE, list |-> "ok", messages |-> << >>, failed |-> {}]}
    \cup {[auth |-> TRUE, list |-> l, messages |-> << >>, failed |-> {}] :
             l \in {"http_error", "error"}}
    \cup UNION { {[auth |-> TRUE, list |-> "ok", messages |-> m, failed |-> F] :
                     F \in SUBSET (1..Len(m))} : m \in listings }

---------------------------------------------------------------------------
(* SpecFetch: search_application_emails, called directly *)

InitFetch ==
    /\ files = [p \in Paths |-> Absent]
    /\ excel_tracker = DEFAULT_EXCEL_PATH
    /\ service = FALSE
    /\ patterns = EMAIL_PATTERNS
    /\ clock = 0
    /\ last = NoCall
    /\ requests = NoRequests

\* await self.email_processor.search_application_emails(start_date, end_date)
Search(start_date, end_date, env) ==
    \E r \in {SearchApplicationEmails(service, start_date, end_date, env, clock)} :
    /\ service' = r.service
    /\ last' = [op           |-> "search",
                start_date   |-> start_date,
                end_date     |-> end_date,
                env          |-> env,
                listed       |-> /\ service \/ env.auth
                                 /\ ValidDate(start_date) /\ ValidDate(end_date)
                                 /\ env.list = "ok",
                raised       |-> r.raised,
                applications |-> r.applications]
    /\ UNCHANGED <<requests, files, excel_tracker, patterns, clock>>

\* any list of up to MaxMessages message ids, any positions failing
FetchEnvs == Envs(SeqsUpTo(MailIds, MaxMessages))

NextFetch ==
    \E start_date \in DateArgs, end_date \in DateArgs, env \in FetchEnvs :
        Search(start_date, end_date, env)

SpecFetch == InitFetch /\ [][NextFetch]_vars

\* the positions of a list that are not in `failed`, in increasing order
RECURSIVE Kept(_, _, _)
Kept(n, k, failed) ==
    IF k > n THEN << >>
    ELSE IF k \in failed THEN Kept(n, k + 1, failed)
    ELSE << k >> \o Kept(n, k + 1, failed)

\* C9: when the search lists messages, search_application_emails returns one
\* record per message whose processing did not fail, in the order of the
\* list, whichever messages failed.
C9_FailedMessagesAreSkipped ==
    (last.op = "search" /\ last.listed) =>
        LET kept == Kept(Len(last.env.messages), 1, last.env.failed) IN
        /\ ~last.raised
        /\ Len(last.applications) = Len(kept)
        /\ \A k \in 1..Len(kept) :
               /\ last.applications[k].message_id = last.env.messages[kept[k]]
               /\ last.applications[k] = ProcessMessage(last.env.messages[kept[k]], clock)

\* C9 witness: of two listed messages the first failed, and the record of the
\* second was returned.
C9_Witness ==
    /\ last.op = "search"
    /\ last.listed
    /\ Len(last.env.messages) = 2
    /\ last.env.failed = {1}
    /\ Len(last.applications) = 1
    /\ last.applications[1].message_id = last.env.messages[2]

---------------------------------------------------------------------------
(* mcp/server.py: JobApplicationMCPServer *)

\* the status_counts loop of _generate_scan_summary
RECURSIVE StatusCountLoop(_, _)
StatusCountLoop(applications, status_counts) ==
    IF applications = << >> THEN status_counts
    ELSE LET status == Head(applications).status IN
         StatusCountLoop(
             Tail(applications),
             IF status \in DOMAIN status_counts
             THEN [status_counts EXCEPT ![status] = @ + 1]
             ELSE [s \in DOMAIN status_counts \cup {status} |->
                      IF s = status THEN 1 ELSE status_counts[s]])

\* _generate_scan_summary: "Successfully processed {len(applications)} job
\* application emails", a line per status, "Data saved to: {excel_path}"
GenerateScanSummary(applications, path) ==
    [text          |-> "Successfully processed",
     processed     |-> Len(applications),
     status_counts |-> StatusCountLoop(applications, EmptyDict),
     saved_to      |-> path]

\* _generate_summary_text: "Application Summary (Total: {total})" and a line
\* per status
GenerateSummaryText(summary_data) ==
    [text          |-> "Application Summary",
     total         |-> summary_data.total_applications,
     status_counts |-> summary_data.status_counts]

\* the values of the excel_path argument: left out, or a path
PathArgs == {None} \cup Paths

\* the lists of message ids the search of a scan returns
Listings == { << >>, << "m1" >>, << "m2", "m1" >> }

ScanEnvs == Envs(Listings)

\* _handle_scan_applications: the tracker it leaves in self.excel_tracker,
\* the service, the files, the text it returns (result), the count that
\* update_applications logged, and of its search the calls of authenticate(),
\* whether it raised, and the number of records it returned.  An exception
\* raised inside the try block is caught and becomes an error text.
ScanOutcome(tracker, found, files_after, added_count, result) ==
    [excel_tracker |-> tracker, service |-> found.service,
     files |-> files_after, added_count |-> added_count,
     authenticate_calls |-> found.authenticate_calls,
     raised |-> found.raised, fetched |-> Len(found.applications),
     result |-> result]

\* lines 102-131 without the except clause: an exception of the search
\* leaves the handler
ScanFromWithoutExcept(tracker, arguments, env, io) ==
    LET found   == SearchApplicationEmails(service, arguments.start_date,
                                           arguments.end_date, env, clock)
        applications == ClassifyApplications(patterns, found.applications)
        r       == UpdateApplicationsResult(files[tracker], applications, clock, io)
    IN  IF found.raised
        THEN ScanOutcome(tracker, found, files, 0, [exception |-> "raised"])
        ELSE IF found.applications = << >>
        THEN ScanOutcome(tracker, found, files, 0,
                 [text |-> "No job application emails found in the specified date range."])
        ELSE ScanOutcome(tracker, found, [files EXCEPT ![tracker] = r.file],
                 r.added_count,
                 IF r.ok
                 THEN GenerateScanSummary(applications, tracker)
                 ELSE [text |-> "Found applications but failed to update Excel file."])

\* lines 102-131 without the return of lines 105-109: an empty search goes on
\* to classify_applications and update_applications
ScanFromMergingEmpty(tracker, arguments, env, io) ==
    LET found   == SearchApplicationEmails(service, arguments.start_date,
                                           arguments.end_date, env, clock)
        applications == ClassifyApplications(patterns, found.applications)
        r       == UpdateApplicationsResult(files[tracker], applications, clock, io)
    IN  IF found.raised
        THEN ScanOutcome(tracker, found, files, 0,
                 [text |-> "Error scanning applications"])
        ELSE ScanOutcome(tracker, found, [files EXCEPT ![tracker] = r.file],
                 r.added_count,
                 IF r.ok
                 THEN GenerateScanSummary(applications, tracker)
                 ELSE [text |-> "Found applications but failed to update Excel file."])

\* lines 95-100: the tracker self.excel_tracker holds after them
SelectTracker(arguments) ==
    IF Truthy(arguments.excel_path) THEN arguments.excel_path ELSE excel_tracker

\* lines 102-131: the search and what follows it, `tracker` being the path of
\* self.excel_tracker when the search returns
ScanFrom(tracker, arguments, env, io) ==
    LET found   == SearchApplicationEmails(service, arguments.start_date,
                                           arguments.end_date, env, clock)
        applications == ClassifyApplications(patterns, found.applications)
        r       == UpdateApplicationsResult(files[tracker], applications, clock, io)
    IN  IF found.raised
        THEN ScanOutcome(tracker, found, files, 0,
                 [text |-> "Error scanning applications"])
        ELSE IF found.applications = << >>
        THEN ScanOutcome(tracker, found, files, 0,
                 [text |-> "No job application emails found in the specified date range."])
        ELSE ScanOutcome(tracker, found, [files EXCEPT ![tracker] = r.file],
                 r.added_count,
                 IF r.ok
                 THEN GenerateScanSummary(applications, tracker)
                 ELSE [text |-> "Found applications but failed to update Excel file."])

HandleScanApplications(arguments, env, io) ==
    ScanFrom(SelectTracker(arguments), arguments, env, io)

\* _handle_get_summary
HandleGetSummary(arguments, io) ==
    LET path == IF Truthy(arguments.excel_path)
                THEN arguments.excel_path ELSE excel_tracker
        summary_data == GetApplicationSummaryResult(path, files[path], io)
    IN  IF "error" \in DOMAIN summary_data
        THEN [text |-> summary_data.error]
        ELSE GenerateSummaryText(summary_data)

---------------------------------------------------------------------------
(* Spec: the tool calls of the server *)

Init ==
    /\ files \in [Paths -> {Absent, Book(TRUE, << EXCEL_HEADERS >>)}]
    /\ excel_tracker = DEFAULT_EXCEL_PATH
    /\ service = FALSE
    /\ patterns = EMAIL_PATTERNS
    /\ clock = 0
    /\ last = NoCall
    /\ requests = NoRequests

\* the tool call scan_job_applications
ScanJobApplications(arguments, env, io) ==
    \E h \in {HandleScanApplications(arguments, env, io)} :
    /\ excel_tracker' = h.excel_tracker
    /\ service' = h.service
    /\ files' = h.files
    /\ last' = [op          |-> "scan",
                excel_path  |-> arguments.excel_path,
                result      |-> h.result,
                added_count |-> h.added_count,
                authenticate_calls |-> h.authenticate_calls,
                raised      |-> h.raised,
                fetched     |-> h.fetched]
    /\ UNCHANGED <<requests, patterns, clock>>

\* the tool call get_application_summary
GetSummary(arguments, io) ==
    /\ last' = [op         |-> "get_summary",
                excel_path |-> arguments.excel_path,
                result     |-> HandleGetSummary(arguments, io)]
    /\ UNCHANGED <<requests, files, excel_tracker, service, patterns, clock>>

ScanArguments ==
    [start_date : DateArgs, end_date : {"2024-12-31"}, excel_path : PathArgs]

\* what Gmail and the file system do during a scan; the file system is
\* only used when the search returns a record
ScanCases ==
    { c \in ScanEnvs \X IOs :
        c[2] = "ok" \/ Len(c[1].messages) > Cardinality(c[1].failed) }

Next ==
    \/ \E arguments \in ScanArguments, c \in ScanCases :
          ScanJobApplications(arguments, c[1], c[2])
    \/ \E arguments \in [excel_path : PathArgs], io \in {"ok", "load"} :
          GetSummary(arguments, io)

Spec == Init /\ [][Next]_vars

---------------------------------------------------------------------------
(* Claims about the server, checked under Spec *)

\* C7: a scan that succeeds reports the number of rows it inserted into the
\* table.
C7_ScanReportsInsertedCount ==
    (last.op = "scan" /\ last.result.text = "Successfully processed") =>
        last.result.processed = last.added_count

\* the texts a tool call returns
ResultTexts ==
    {"Error scanning applications",
     "No job application emails found in the specified date range.",
     "Found applications but failed to update Excel file.",
     "Successfully processed",
     "Application Summary",
     "Excel file not found",
     "Error reading Excel file",
     "No Applications sheet found in Excel file",
     "No applications found in Excel file"}

\* C12: every scan_job_applications and get_application_summary call returns
\* a text, whatever fails inside it: an exception of the search becomes the
\* text "Error scanning applications", a failed table update the text "Found
\* applications but failed to update Excel file.", a missing or unreadable
\* file of a summary its error text.  A scan whose authentication fails has
\* called authenticate() once, has fetched no record and returns the text of
\* an empty search.
C12_NoExceptionEscapes ==
    /\ last.op \in {"scan", "get_summary"} =>
           /\ "text" \in DOMAIN last.result
           /\ last.result.text \in ResultTexts
    /\ last.op = "scan" =>
           /\ last.raised => last.result.text = "Error scanning applications"
           /\ last.authenticate_calls <= 1
           /\ (last.authenticate_calls = 1 /\ ~service) =>
                  /\ last.fetched = 0
                  /\ last.result.text =
                       "No job application emails found in the specified date range."

\* C12 witness: a scan whose search raised (a date strptime rejects, or an
\* error of the list call that is no HttpError) after an earlier scan whose
\* authentication succeeded, and it returned the error text.
C12_Witness ==
    /\ last.op = "scan"
    /\ last.raised
    /\ last.authenticate_calls = 0
    /\ last.result = [text |-> "Error scanning applications"]

\* C14: a scan_job_applications call without excel_path writes to
\* job_applications.xlsx and to no other file, whatever excel_path earlier
\* calls were given.
C14_OmittedPathIsDefault ==
    [][ (last'.op = "scan" /\ last'.excel_path = None) =>
            /\ \A p \in Paths \ {DEFAULT_EXCEL_PATH} : files'[p] = files[p]
            /\ last'.result.text = "Successfully processed" =>
                   last'.result.saved_to = DEFAULT_EXCEL_PATH ]_vars

\* C16: a scan whose search returns no record (no message listed, every
\* message failed, authentication failed, the list call or the dates raised)
\* leaves every file as it was, inserts nothing and returns before
\* classify_applications and update_applications: its text is that of an
\* empty search or of an error of the search.
C16_EmptyScanLeavesTable ==
    [][ (last'.op = "scan" /\ last'.fetched = 0) =>
            /\ files' = files
            /\ last'.added_count = 0
            /\ last'.result.text \in
                   {"No job application emails found in the specified date range.",
                    "Error scanning applications"} ]_vars

\* C16 witness: a scan that named other.xlsx fetched nothing, and other.xlsx
\* does not exist.
C16_Witness ==
    /\ last.op = "scan"
    /\ last.fetched = 0
    /\ last.excel_path = "other.xlsx"
    /\ excel_tracker = "other.xlsx"
    /\ ~files["other.xlsx"].exists

---------------------------------------------------------------------------
(* SpecServe: the tool calls as coroutines of one asyncio event loop.      *)
(* handle_call_tool is a coroutine; the event loop runs one coroutine at a *)
(* time and switches only where the running one awaits something that      *)
(* suspends it.  A step of the model is one such uninterrupted run.        *)

\* the coroutines of the repository that suspend: authenticate,
\* search_application_emails and _process_message are awaited, and none of
\* them awaits anything but these; the Gmail and file calls they make are
\* blocking calls
SuspendingCoroutines == {}

\* `await coroutine` hands control to the event loop if the coroutine were
\* search_application_emails
SuspendsAtSearch(coroutine) == coroutine = "search_application_emails"

\* `await coroutine` hands control to the event loop
Suspends(coroutine) == coroutine \in SuspendingCoroutines

\* the tool calls SpecServe receives
ServeArguments ==
    [start_date : {"2024-01-01"}, end_date : {"2024-12-31"}, excel_path : PathArgs]

ServeEnvs == Envs({ << "m1" >> })

InitServe ==
    /\ files \in [Paths -> {Absent, Book(TRUE, << EXCEL_HEADERS >>)}]
    /\ excel_tracker = DEFAULT_EXCEL_PATH
    /\ service = FALSE
    /\ patterns = EMAIL_PATTERNS
    /\ clock = 0
    /\ last = NoCall
    /\ requests = NoRequests

\* a tools/call request arrives and the server creates its handle_call_tool
\* coroutine
HandleCallTool(name, arguments) ==
    /\ Len(requests) < MaxCalls
    /\ requests' = Append(requests,
                      [pc |-> "pending", name |-> name, arguments |-> arguments,
                       selected |-> None, wrote |-> None, result |-> None])
    /\ UNCHANGED <<files, excel_tracker, service, patterns, clock, last>>

\* the event loop runs the coroutine of a scan_job_applications call, from
\* where it stands to its next suspension or its return.
\*   selected  the path of the tracker after lines 99-100 of this call
\*   wrote     the path of the tracker whose update_applications it called
RunScan(c, env, io) ==
    /\ c \in 1..Len(requests)
    /\ requests[c].name = "scan_job_applications"
    /\ requests[c].pc \in {"pending", "suspended"}
    /\ LET call    == requests[c]
           tracker == IF call.pc = "pending"
                      THEN SelectTracker(call.arguments) ELSE excel_tracker
           selected == IF call.pc = "pending" THEN tracker ELSE call.selected
       IN  IF call.pc = "pending" /\ Suspends("search_application_emails")
           THEN /\ excel_tracker' = tracker
                /\ requests' = [requests EXCEPT ![c].pc = "suspended",
                                                ![c].selected = selected]
                /\ UNCHANGED <<files, service, patterns, clock, last>>
           ELSE \E h \in {ScanFrom(tracker, call.arguments, env, io)} :
                /\ excel_tracker' = h.excel_tracker
                /\ service' = h.service
                /\ files' = h.files
                /\ requests' = [requests EXCEPT
                       ![c].pc = "done",
                       ![c].selected = selected,
                       ![c].wrote = IF ~h.raised /\ h.fetched > 0
                                    THEN tracker ELSE None,
                       ![c].result = h.result]
                /\ UNCHANGED <<patterns, clock, last>>

\* the event loop runs the coroutine of a get_application_summary call; it
\* awaits nothing
RunSummary(c, io) ==
    /\ c \in 1..Len(requests)
    /\ requests[c].name = "get_application_summary"
    /\ requests[c].pc = "pending"
    /\ requests' = [requests EXCEPT
           ![c].pc = "done",
           ![c].result = HandleGetSummary(requests[c].arguments, io)]
    /\ UNCHANGED <<files, excel_tracker, service, patterns, clock, last>>

NextServe ==
    \/ \E arguments \in ServeArguments :
          HandleCallTool("scan_job_applications", arguments)
    \/ \E arguments \in [excel_path : PathArgs] :
          HandleCallTool("get_application_summary", arguments)
    \/ \E c \in 1..MaxCalls, env \in ServeEnvs, io \in {"ok", "refused"} :
          RunScan(c, env, io)
    \/ \E c \in 1..MaxCalls, io \in {"ok", "load"} : RunSummary(c, io)

SpecServe == InitServe /\ [][NextServe]_vars

\* C13: the tool calls are serialized: whenever the event loop may pick a
\* coroutine, no call is part-way through its handler (every call received
\* has either not started or returned), and a scan that has called
\* update_applications called it on the tracker of the path it selected.
C13_InvocationsSerialized ==
    \A c \in 1..Len(requests) :
        /\ requests[c].pc \in {"pending", "done"}
        /\ (requests[c].pc = "done" /\ requests[c].wrote # None) =>
               requests[c].wrote = requests[c].selected

\* C13 witness: two scans naming different files were received before either
\* ran, and both have returned having updated a table.
C13_Witness ==
    /\ Len(requests) = 2
    /\ \A c \in 1..2 :
           /\ requests[c].name = "scan_job_applications"
           /\ requests[c].pc = "done"
           /\ requests[c].wrote # None
    /\ requests[1].arguments.excel_path = "other.xlsx"
    /\ requests[2].arguments.excel_path = None

====
